---- MODULE Spec2Model ----
(***************************************************************************)
(* Resilient execution core of cloud-support-mcp (src/src/utils/retry.ts): *)
(* RetryMechanism, TimeoutManager, CircuitBreaker and RobustExecutor.      *)
(*                                                                         *)
(* SpecRetry   : one call of RetryMechanism.execute against an operation   *)
(*               whose every invocation resolves or throws.                *)
(* SpecBreaker : concurrent calls of CircuitBreaker.execute on one breaker *)
(*               while the wall clock (Date.now()) advances.               *)
(* SpecClassify: the error path of a handler (src/src/types/errors.ts,     *)
(*               src/src/handlers/base-handler.ts): a thrown value is      *)
(*               classified, classified again and formatted.               *)
(* SpecExec    : two concurrent calls of RobustExecutor.execute, each a    *)
(*               retry loop around [a breaker around] a timeout race.      *)
(*                                                                         *)
(* Numbers: delays are exact rationals [n, d] (backoffFactor may be 1.5 or *)
(* 2.5); IEEE rounding of Math.pow is not modelled.  Math.random() ranges  *)
(* over the grid {0, 1/RandomSteps, ..., (RandomSteps-1)/RandomSteps}.     *)
(***************************************************************************)
EXTENDS Integers, Sequences, FiniteSets, TLC

VARIABLES
    \* ---- RetryMechanism.execute (one call) ----
    config,       \* the RetryConfig of the call
    attempt,      \* loop variable `attempt`
    rpc,          \* position: "loop" | "awaitOp" | "sleeping" | "done"
    lastError,    \* local `lastError`
    outcome,      \* how the promise returned by execute settled
    invocations,  \* number of times operation() has been invoked
    sleeps,       \* the delays passed to sleep(), in order
    opLog,        \* what each settled invocation of operation() did
    \* ---- CircuitBreaker (one instance) and its callers ----
    circuitConfig,  \* the CircuitBreakerConfig of the breaker
    now,            \* Date.now()
    state,          \* CircuitBreaker.state
    stats,          \* CircuitBreaker.stats
    cpc,            \* per caller: "idle" | "inflight" (awaiting operation())
    cres,           \* per caller: how its last execute() settled
    calls,          \* number of CircuitBreaker.execute calls made
    lastFailureAt,  \* history: time of the most recent onFailure (0: none)
    lastSettle,     \* history: "none" | "success" | "failure", latest settle
    dispatchedIn,   \* history, per caller: the state in which its call in
                    \* flight was dispatched ("-" when it has none)
    \* ---- ErrorClassifier / BaseHandler error path (one failure) ----
    thrown,       \* the value caught in executeWithErrorHandling
    classified,   \* results of the classification steps applied, in order
    response,     \* the response returned (NoResponse: not yet)
    nextId,       \* identity of the next error object constructed
    \* ---- RobustExecutor (one instance) and the calls of execute ----
    xopt,         \* per call: its operationName and enableCircuitBreaker
    breakers,     \* RobustExecutor.circuitBreakers: name -> breaker
    created,      \* number of CircuitBreaker objects constructed
    xpc,          \* per call: "idle" | "awaitOp" | "sleeping" | "done"
    xattempt,     \* per call: loop variable `attempt` of RetryMechanism
    xlast,        \* per call: `lastError` of RetryMechanism
    xout,         \* per call: how the promise returned by execute settled
    abandoned,    \* per call: operations still running after their timeout
    stale,        \* per call: timers still pending after their operation
    \* ---- GracefulShutdownManager (the process's one instance) ----
    shutdownHandlers,  \* the timeout of each registered handler, in order
    shutdownTimeout,   \* GracefulShutdownManager.shutdownTimeout
    isShuttingDown,    \* GracefulShutdownManager.isShuttingDown
    reason,            \* `reason` of the shutdown call that went ahead
    lastCall,          \* the latest shutdown call: "none" | "started" | "ignored"
    hstat,             \* per handler: "idle" | "running" | "done" | "failed" | "timedout"
    hcalls,            \* per handler: number of times it was invoked
    gtimer,            \* the global timer: "unset" | "pending" | "fired"
    elapsed,           \* time since the shutdown began
    exited,            \* process.exit was called
    exitCode,          \* the status passed to process.exit
    \* ---- ErrorCollector (the process's one instance) ----
    metrics,      \* ErrorCollector.metrics: key -> entry
    recorded      \* history: the errors recorded since the last reset()

retryVars == <<config, attempt, rpc, lastError, outcome, invocations, sleeps, opLog>>

breakerVars == <<circuitConfig, now, state, stats, cpc, cres, calls,
                 lastFailureAt, lastSettle, dispatchedIn>>

classifyVars == <<thrown, classified, response, nextId>>

execVars == <<xopt, breakers, created, xpc, xattempt, xlast, xout,
              abandoned, stale>>

shutdownVars == <<shutdownHandlers, shutdownTimeout, isShuttingDown, reason,
                  lastCall, hstat, hcalls, gtimer, elapsed, exited, exitCode>>

collectorVars == <<metrics, recorded>>

processVars == <<shutdownVars, collectorVars>>

vars == <<retryVars, breakerVars, classifyVars, execVars, processVars>>

----------------------------------------------------------------------------
(* Bounds of the model                                                     *)

MaxAttemptsBound == 3
MaxInitialDelay == 4
MaxDelayBound == 8
RandomSteps == 4
NumCallers == 2
MaxCalls == 3
MaxTime == 3
MaxThreshold == 2
MaxMinimumRequests == 2
MaxRecoveryTimeout == 2
MaxMonitoringPeriod == 2
MaxClassifySteps == 2
MaxExecAttempts == 2
MaxExecTime == 1
MaxHandlers == 2
MaxShutdownTimeout == 2
MaxRecords == 3
MaxTimestamp == 2

----------------------------------------------------------------------------
(* Rationals                                                               *)

Rat(n, d) == [n |-> n, d |-> d]
RatLeq(a, b) == a.n * b.d <= b.n * a.d

RECURSIVE Pow(_, _)
Pow(b, e) == IF e <= 0 THEN 1 ELSE b * Pow(b, e - 1)

----------------------------------------------------------------------------
(* RetryConfig                                                             *)

\* backoffFactor values of the three shipped profiles: 2, 1.5, 2.5
BackoffFactors == {Rat(2, 1), Rat(3, 2), Rat(5, 2)}

DEFAULT_RETRY_CONFIG ==
    [maxAttempts |-> 3, initialDelay |-> 1000, maxDelay |-> 10000,
     backoffFactor |-> Rat(2, 1), jitter |-> TRUE]

RetryConfigs ==
    [maxAttempts  : 1..MaxAttemptsBound,
     initialDelay : 1..MaxInitialDelay,
     maxDelay     : 1..MaxDelayBound,
     backoffFactor: BackoffFactors,
     jitter       : BOOLEAN]

\* An error thrown by the operation: `id` tells the thrown values apart,
\* `retryable` is the verdict config.retryableErrors gives for it.
NoError == [id |-> 0, retryable |-> FALSE]
ErrorOf(i, r) == [id |-> i, retryable |-> r]

retryableErrors(cfg, error) == error.retryable

Pending == [kind |-> "pending", value |-> 0, error |-> NoError]
Resolved(v) == [kind |-> "resolved", value |-> v, error |-> NoError]
Rejected(e) == [kind |-> "rejected", value |-> 0, error |-> e]

\* Math.random(): k / RandomSteps
RandomDraws == 0..(RandomSteps - 1)

\* Math.min(initialDelay * Math.pow(backoffFactor, attempt - 1), maxDelay)
exponentialDelay(att, cfg) ==
    LET raw == Rat(cfg.initialDelay * Pow(cfg.backoffFactor.n, att - 1),
                   Pow(cfg.backoffFactor.d, att - 1))
    IN  IF RatLeq(raw, Rat(cfg.maxDelay, 1)) THEN raw ELSE Rat(cfg.maxDelay, 1)

\* jitterFactor = 0.75 + Math.random() * 0.5 = (3*RandomSteps + 2k) / (4*RandomSteps)
jitterFactor(k) == Rat(3 * RandomSteps + 2 * k, 4 * RandomSteps)

calculateDelayOffByOne(att, cfg, k) ==
    LET e == exponentialDelay(att + 1, cfg)
    IN  IF ~cfg.jitter THEN e
        ELSE Rat((e.n * jitterFactor(k).n) \div (e.d * jitterFactor(k).d), 1)

calculateDelay(att, cfg, k) ==
    LET e == exponentialDelay(att, cfg)
    IN  IF ~cfg.jitter THEN e
        ELSE Rat((e.n * jitterFactor(k).n) \div (e.d * jitterFactor(k).d), 1)

\* `attempt === config.maxAttempts || !config.retryableErrors(error)`
StopOnFinalAttemptOnly(att, cfg, error) == att = cfg.maxAttempts
StopOnNonRetryableOnly(att, cfg, error) == ~retryableErrors(cfg, error)

ShouldStop(att, cfg, error) ==
    att = cfg.maxAttempts \/ ~retryableErrors(cfg, error)

----------------------------------------------------------------------------
(* RetryMechanism.execute                                                  *)

\* entry of RetryMechanism.execute
RetryStart ==
    /\ attempt = 1
    /\ rpc = "loop"
    /\ lastError = NoError
    /\ outcome = Pending
    /\ invocations = 0
    /\ sleeps = <<>>
    /\ opLog = <<>>

\* `for (...; attempt <= config.maxAttempts; ...) { ... await operation()`
RetryInvoke ==
    /\ rpc = "loop"
    /\ IF attempt <= config.maxAttempts
       THEN /\ invocations' = invocations + 1
            /\ rpc' = "awaitOp"
            /\ UNCHANGED outcome
       ELSE /\ outcome' = Rejected(lastError)
            /\ rpc' = "done"
            /\ UNCHANGED invocations
    /\ UNCHANGED <<config, attempt, lastError, sleeps, opLog>>
    /\ UNCHANGED <<breakerVars, classifyVars, execVars, processVars>>

\* operation() resolved: `return result`
OpResolvesKeepLooping ==
    /\ rpc = "awaitOp"
    /\ opLog' = Append(opLog, [ok |-> TRUE, value |-> invocations, error |-> NoError])
    /\ outcome' = IF attempt = config.maxAttempts THEN Resolved(invocations) ELSE outcome
    /\ rpc' = IF attempt = config.maxAttempts THEN "done" ELSE "loop"
    /\ attempt' = IF attempt = config.maxAttempts THEN attempt ELSE attempt + 1
    /\ UNCHANGED <<config, lastError, invocations, sleeps>>
    /\ UNCHANGED <<breakerVars, classifyVars, execVars, processVars>>

OpResolves ==
    /\ rpc = "awaitOp"
    /\ opLog' = Append(opLog, [ok |-> TRUE, value |-> invocations, error |-> NoError])
    /\ outcome' = Resolved(invocations)
    /\ rpc' = "done"
    /\ UNCHANGED <<config, attempt, lastError, invocations, sleeps>>
    /\ UNCHANGED <<breakerVars, classifyVars, execVars, processVars>>

\* operation() threw: the catch block, up to `await this.sleep(delay)` or
\* the `break` followed by `throw lastError`
OpRejects ==
    /\ rpc = "awaitOp"
    /\ \E r \in BOOLEAN :
         LET error == ErrorOf(invocations, r) IN
         /\ opLog' = Append(opLog, [ok |-> FALSE, value |-> 0, error |-> error])
         /\ lastError' = error
         /\ IF ShouldStop(attempt, config, error)
            THEN /\ outcome' = Rejected(error)
                 /\ rpc' = "done"
                 /\ UNCHANGED sleeps
            ELSE /\ \E k \in RandomDraws :
                      sleeps' = Append(sleeps, calculateDelay(attempt, config, k))
                 /\ rpc' = "sleeping"
                 /\ UNCHANGED outcome
    /\ UNCHANGED <<config, attempt, invocations>>
    /\ UNCHANGED <<breakerVars, classifyVars, execVars, processVars>>

\* the sleep timer fired: `attempt++`
SleepEnds ==
    /\ rpc = "sleeping"
    /\ attempt' = attempt + 1
    /\ rpc' = "loop"
    /\ UNCHANGED <<config, lastError, outcome, invocations, sleeps, opLog>>
    /\ UNCHANGED <<breakerVars, classifyVars, execVars, processVars>>

RetryNext ==
    \/ RetryInvoke
    \/ OpResolves
    \/ OpRejects
    \/ SleepEnds

----------------------------------------------------------------------------
(* CircuitBreaker                                                          *)

Callers == 1..NumCallers

CircuitBreakerConfigs ==
    [failureThreshold : 1..MaxThreshold,
     recoveryTimeout  : 1..MaxRecoveryTimeout,
     monitoringPeriod : 1..MaxMonitoringPeriod,
     minimumRequests  : 1..MaxMinimumRequests]

DEFAULT_CIRCUIT_CONFIG ==
    [failureThreshold |-> 5, recoveryTimeout |-> 60000,
     monitoringPeriod |-> 10000, minimumRequests |-> 10]

\* Date.now() when the breaker is constructed: milliseconds since 1970, so
\* later than any recoveryTimeout
Epoch == MaxRecoveryTimeout + 1

\* resetStats(): a fresh stats object
resetStats(t) ==
    [requests |-> 0, failures |-> 0, lastFailureTime |-> 0, windowStart |-> t]

updateStateElseIf(st, ss, cfg, t) ==
    IF t - ss.windowStart > cfg.monitoringPeriod
    THEN [state |-> st, stats |-> resetStats(t)]
    ELSE IF st = "OPEN" /\ t - ss.lastFailureTime > cfg.recoveryTimeout
         THEN [state |-> "HALF_OPEN", stats |-> ss]
         ELSE [state |-> st, stats |-> ss]

updateStateResetsRequestsOnly(st, ss, cfg, t) ==
    LET ss1 == IF t - ss.windowStart > cfg.monitoringPeriod
               THEN [ss EXCEPT !.requests = 0, !.windowStart = t] ELSE ss
        st1 == IF st = "OPEN" /\ t - ss1.lastFailureTime > cfg.recoveryTimeout
               THEN "HALF_OPEN" ELSE st
    IN  [state |-> st1, stats |-> ss1]

\* updateState(): the breaker [state, stats] it leaves at time t
updateState(st, ss, cfg, t) ==
    LET ss1 == IF t - ss.windowStart > cfg.monitoringPeriod THEN resetStats(t) ELSE ss
        st1 == IF st = "OPEN" /\ t - ss1.lastFailureTime > cfg.recoveryTimeout
               THEN "HALF_OPEN" ELSE st
    IN  [state |-> st1, stats |-> ss1]

onSuccessAlwaysCloses(st, ss, cfg, t) ==
    IF st # "CLOSED"
    THEN [state |-> "CLOSED", stats |-> resetStats(t)]
    ELSE [state |-> st, stats |-> ss]

onSuccessKeepsStats(st, ss, cfg, t) ==
    IF st = "HALF_OPEN"
    THEN [state |-> "CLOSED", stats |-> ss]
    ELSE [state |-> st, stats |-> ss]

\* onSuccess(): the breaker [state, stats] it leaves
onSuccess(st, ss, cfg, t) ==
    IF st = "HALF_OPEN"
    THEN [state |-> "CLOSED", stats |-> resetStats(t)]
    ELSE [state |-> st, stats |-> ss]

onFailureStrictThreshold(st, ss, cfg, t) ==
    LET ss1 == [ss EXCEPT !.failures = @ + 1, !.lastFailureTime = t]
    IN  IF /\ ss1.failures > cfg.failureThreshold
           /\ ss1.requests >= cfg.minimumRequests
        THEN [state |-> "OPEN", stats |-> ss1]
        ELSE [state |-> st, stats |-> ss1]

onFailureOpensFromClosedOnly(st, ss, cfg, t) ==
    LET ss1 == [ss EXCEPT !.failures = @ + 1, !.lastFailureTime = t]
    IN  IF /\ st = "CLOSED"
           /\ ss1.failures >= cfg.failureThreshold
           /\ ss1.requests >= cfg.minimumRequests
        THEN [state |-> "OPEN", stats |-> ss1]
        ELSE [state |-> st, stats |-> ss1]

\* onFailure(): the breaker [state, stats] it leaves
onFailure(st, ss, cfg, t) ==
    LET ss1 == [ss EXCEPT !.failures = @ + 1, !.lastFailureTime = t]
    IN  IF /\ ss1.failures >= cfg.failureThreshold
           /\ ss1.requests >= cfg.minimumRequests
        THEN [state |-> "OPEN", stats |-> ss1]
        ELSE [state |-> st, stats |-> ss1]

\* a freshly constructed CircuitBreaker, no caller yet
BreakerStart ==
    /\ now = Epoch
    /\ state = "CLOSED"
    /\ stats = resetStats(Epoch)
    /\ cpc = [c \in Callers |-> "idle"]
    /\ cres = [c \in Callers |-> "none"]
    /\ calls = 0
    /\ lastFailureAt = 0
    /\ lastSettle = "none"
    /\ dispatchedIn = [c \in Callers |-> "-"]

ExecuteCountsBeforeCheck(c) ==
    /\ cpc[c] = "idle"
    /\ calls < MaxCalls
    /\ calls' = calls + 1
    /\ LET u == updateState(state, stats, circuitConfig, now) IN
       /\ state' = u.state
       /\ stats' = [u.stats EXCEPT !.requests = @ + 1]
       /\ IF u.state = "OPEN"
          THEN /\ cres' = [cres EXCEPT ![c] = "circuitOpen"]
               /\ UNCHANGED <<cpc, dispatchedIn>>
          ELSE /\ cpc' = [cpc EXCEPT ![c] = "inflight"]
               /\ cres' = [cres EXCEPT ![c] = "none"]
               /\ dispatchedIn' = [dispatchedIn EXCEPT ![c] = u.state]
    /\ UNCHANGED <<circuitConfig, now, lastFailureAt, lastSettle>>
    /\ UNCHANGED <<retryVars, classifyVars, execVars, processVars>>

\* CircuitBreaker.execute up to `await operation()`, or up to the throw of
\* the circuit-open Error
Execute(c) ==
    /\ cpc[c] = "idle"
    /\ calls < MaxCalls
    /\ calls' = calls + 1
    /\ LET u == updateState(state, stats, circuitConfig, now) IN
       IF u.state = "OPEN"
       THEN /\ state' = u.state
            /\ stats' = u.stats
            /\ cres' = [cres EXCEPT ![c] = "circuitOpen"]
            /\ UNCHANGED <<cpc, dispatchedIn>>
       ELSE /\ state' = u.state
            /\ stats' = [u.stats EXCEPT !.requests = @ + 1]
            /\ cpc' = [cpc EXCEPT ![c] = "inflight"]
            /\ cres' = [cres EXCEPT ![c] = "none"]
            /\ dispatchedIn' = [dispatchedIn EXCEPT ![c] = u.state]
    /\ UNCHANGED <<circuitConfig, now, lastFailureAt, lastSettle>>
    /\ UNCHANGED <<retryVars, classifyVars, execVars, processVars>>

\* operation() resolved: onSuccess(); return result
OperationSucceeds(c) ==
    /\ cpc[c] = "inflight"
    /\ LET u == onSuccess(state, stats, circuitConfig, now) IN
       /\ state' = u.state
       /\ stats' = u.stats
    /\ cpc' = [cpc EXCEPT ![c] = "idle"]
    /\ cres' = [cres EXCEPT ![c] = "ok"]
    /\ lastSettle' = "success"
    /\ dispatchedIn' = [dispatchedIn EXCEPT ![c] = "-"]
    /\ UNCHANGED <<circuitConfig, now, calls, lastFailureAt>>
    /\ UNCHANGED <<retryVars, classifyVars, execVars, processVars>>

\* operation() threw: onFailure(); throw error
OperationFails(c) ==
    /\ cpc[c] = "inflight"
    /\ LET u == onFailure(state, stats, circuitConfig, now) IN
       /\ state' = u.state
       /\ stats' = u.stats
    /\ cpc' = [cpc EXCEPT ![c] = "idle"]
    /\ cres' = [cres EXCEPT ![c] = "error"]
    /\ lastSettle' = "failure"
    /\ dispatchedIn' = [dispatchedIn EXCEPT ![c] = "-"]
    /\ lastFailureAt' = now
    /\ UNCHANGED <<circuitConfig, now, calls>>
    /\ UNCHANGED <<retryVars, classifyVars, execVars, processVars>>

\* the wall clock advances
Tick ==
    /\ now < Epoch + MaxTime
    /\ now' = now + 1
    /\ UNCHANGED <<circuitConfig, state, stats, cpc, cres, calls,
                   lastFailureAt, lastSettle, dispatchedIn>>
    /\ UNCHANGED <<retryVars, classifyVars, execVars, processVars>>

BreakerNext ==
    \/ \E c \in Callers : Execute(c)
    \/ \E c \in Callers : OperationSucceeds(c)
    \/ \E c \in Callers : OperationFails(c)
    \/ Tick

----------------------------------------------------------------------------
(* ErrorCollector (src/src/types/errors.ts)                                *)

Timestamps == 0..MaxTimestamp

\* the metadata of the errors handed to recordError
RecordedErrors ==
    [category : {"API_CLIENT", "TIMEOUT"},
     code : {"HTTP_429", "HTTP_504"},
     timestamp : Timestamps]

\* the key of recordError
MetricsKey(error) == error.category \o ":" \o error.code

\* recordError(error) on the map m
recordErrorOverwrites(m, error) ==
    LET key == MetricsKey(error)
        entry == [category |-> error.category, code |-> error.code, count |-> 1,
                  firstOccurrence |-> error.timestamp,
                  lastOccurrence |-> error.timestamp]
    IN  [k \in DOMAIN m \cup {key} |-> IF k = key THEN entry ELSE m[k]]

recordError(m, error) ==
    LET key == MetricsKey(error)
        entry == [category |-> error.category, code |-> error.code, count |-> 1,
                  firstOccurrence |-> error.timestamp,
                  lastOccurrence |-> error.timestamp]
    IN  IF key \in DOMAIN m
        THEN [m EXCEPT ![key].count = @ + 1,
                       ![key].lastOccurrence = error.timestamp]
        ELSE [k \in DOMAIN m \cup {key} |-> IF k = key THEN entry ELSE m[k]]

\* getMetrics(): the values of the map
getMetrics(m) == {m[k] : k \in DOMAIN m}

NoMetrics == [k \in {} |-> 0]

collectorFrame ==
    <<retryVars, breakerVars, classifyVars, execVars, shutdownVars>>

RecordError(error) ==
    /\ Len(recorded) < MaxRecords
    /\ metrics' = recordError(metrics, error)
    /\ recorded' = Append(recorded, error)
    /\ UNCHANGED collectorFrame

Reset ==
    /\ recorded # <<>>
    /\ metrics' = NoMetrics
    /\ recorded' = <<>>
    /\ UNCHANGED collectorFrame

CollectorNext ==
    \/ \E error \in RecordedErrors : RecordError(error)
    \/ Reset

\* the collector after construction
CollectorStart ==
    /\ metrics = NoMetrics
    /\ recorded = <<>>

----------------------------------------------------------------------------
(* Error taxonomy and ErrorClassifier (src/src/types/errors.ts)            *)

ErrorCategory ==
    {"AUTHENTICATION", "AUTHORIZATION", "VALIDATION", "NETWORK", "API_CLIENT",
     "TIMEOUT", "CONFIGURATION", "RESOURCE", "UNKNOWN"}

\* A message is the set of the substrings the code tests for that it
\* contains; "ECONNRESET" stands for ECONNRESET, ECONNREFUSED and ENOTFOUND.
MessageTokens == {"fetch", "timeout", "ECONNRESET"}

\* error.status of a value that has no `status` property
NoStatus == -1

\* the statusCode arguments; 0 is the falsy number
HttpStatuses ==
    {0, 302, 400, 401, 403, 404, 408, 409, 418, 422, 429, 499, 500, 503, 504, 599}

\* new BaseError(message, metadata): an object of identity id.  kind is what
\* instanceof tells of a value: "BaseError", "Error", "object", "string" or
\* "other" (null, undefined, a number).
BaseError(name, category, severity, code, retryable, message, id) ==
    [kind |-> "BaseError", id |-> id, name |-> name, message |-> message,
     status |-> NoStatus, category |-> category, severity |-> severity,
     code |-> code, retryable |-> retryable]

\* a thrown value that is no BaseError
RawError(kind, name, message, status) ==
    [kind |-> kind, id |-> 0, name |-> name, message |-> message,
     status |-> status, category |-> "-", severity |-> "-", code |-> "-",
     retryable |-> FALSE]

AuthenticationError(message, code, id) ==
    BaseError("AuthenticationError", "AUTHENTICATION", "HIGH", code, FALSE, message, id)

AuthorizationError(message, code, id) ==
    BaseError("AuthorizationError", "AUTHORIZATION", "HIGH", code, FALSE, message, id)

ValidationError(message, code, id) ==
    BaseError("ValidationError", "VALIDATION", "LOW", code, FALSE, message, id)

NetworkError(message, code, id) ==
    BaseError("NetworkError", "NETWORK", "MEDIUM", code, TRUE, message, id)

ApiClientErrorAllRetryable(message, statusCode, code, id) ==
    BaseError("ApiClientError", "API_CLIENT",
              IF statusCode >= 500 THEN "HIGH" ELSE "MEDIUM",
              code, TRUE, message, id)

\* retryable: statusCode ? statusCode >= 500 || statusCode === 429 : true
ApiClientError(message, statusCode, code, id) ==
    BaseError("ApiClientError", "API_CLIENT",
              IF statusCode # 0 /\ statusCode >= 500 THEN "HIGH" ELSE "MEDIUM",
              code,
              IF statusCode # 0 THEN statusCode >= 500 \/ statusCode = 429 ELSE TRUE,
              message, id)

TimeoutError(message, code, id) ==
    BaseError("TimeoutError", "TIMEOUT", "MEDIUM", code, TRUE, message, id)

ConfigurationError(message, code, id) ==
    BaseError("ConfigurationError", "CONFIGURATION", "CRITICAL", code, FALSE, message, id)

ResourceError(message, code, id) ==
    BaseError("ResourceError", "RESOURCE", "HIGH", code, TRUE, message, id)

GenericError(message, code, id) ==
    BaseError("GenericError", "UNKNOWN", "MEDIUM", code, FALSE, message, id)

HttpCode(statusCode) == "HTTP_" \o ToString(statusCode)

\* ErrorClassifier.fromHttpResponse; the message `HTTP <code>: <statusText>`
\* holds none of the tested substrings
fromHttpResponse(statusCode, id) ==
    CASE statusCode = 401 -> AuthenticationError({}, "HTTP_401", id)
      [] statusCode = 403 -> AuthorizationError({}, "HTTP_403", id)
      [] statusCode \in {400, 422} -> ValidationError({}, HttpCode(statusCode), id)
      [] statusCode = 429 -> ApiClientError({}, statusCode, "HTTP_429", id)
      [] statusCode \in {408, 504} -> TimeoutError({}, HttpCode(statusCode), id)
      [] statusCode = 404 -> ResourceError({}, "HTTP_404", id)
      [] OTHER -> ApiClientError({}, statusCode, HttpCode(statusCode), id)

fromGenericErrorRewraps(error, id) ==
    GenericError(error.message, "UNKNOWN_001", id)

\* ErrorClassifier.fromGenericError
fromGenericError(error, id) ==
    IF error.kind = "BaseError" THEN error
    ELSE IF error.kind = "Error" /\ error.name = "TypeError" /\ "fetch" \in error.message
    THEN NetworkError(error.message, "FETCH_ERROR", id)
    ELSE IF error.kind = "Error"
            /\ (error.name = "AbortError" \/ "timeout" \in error.message)
    THEN TimeoutError(error.message, "TIMEOUT_ERROR", id)
    ELSE GenericError(IF error.kind \in {"Error", "string"} THEN error.message ELSE {},
                      "UNKNOWN_001", id)

\* BaseHandler.classifyError
classifyError(error, id) ==
    IF error.kind = "BaseError" THEN error
    ELSE IF error.kind = "Error" /\ error.name = "ApiError"
            /\ error.status \notin {NoStatus, 0}
    THEN fromHttpResponse(error.status, id)
    ELSE IF error.kind \in {"Error", "object"} /\ error.status # NoStatus
    THEN fromHttpResponse(error.status, id)
    ELSE fromGenericError(error, id)

\* isRetryableError, the default RetryConfig.retryableErrors
isRetryableError(error) ==
    IF error.kind = "BaseError" THEN error.retryable
    ELSE /\ error.kind = "Error"
         /\ \/ error.name = "NetworkError"
            \/ "ECONNRESET" \in error.message
            \/ "timeout" \in error.message

getSafeMessageEchoesUnknown(error) ==
    CASE error.category = "AUTHENTICATION" ->
           "Authentication is required. Please check your credentials."
      [] error.category = "AUTHORIZATION" ->
           "You do not have permission to perform this action."
      [] error.category = "VALIDATION" ->
           "The provided data is invalid. Please check your input."
      [] error.category \in {"NETWORK", "TIMEOUT"} ->
           "A temporary network issue occurred. Please try again later."
      [] error.category = "API_CLIENT" ->
           "External service is temporarily unavailable. Please try again later."
      [] error.category = "CONFIGURATION" ->
           "System configuration error. Please contact support."
      [] error.category = "RESOURCE" ->
           "Required resource is not available. Please try again later."
      [] OTHER -> error.code

\* BaseError.getSafeMessage
getSafeMessage(error) ==
    CASE error.category = "AUTHENTICATION" ->
           "Authentication is required. Please check your credentials."
      [] error.category = "AUTHORIZATION" ->
           "You do not have permission to perform this action."
      [] error.category = "VALIDATION" ->
           "The provided data is invalid. Please check your input."
      [] error.category \in {"NETWORK", "TIMEOUT"} ->
           "A temporary network issue occurred. Please try again later."
      [] error.category = "API_CLIENT" ->
           "External service is temporarily unavailable. Please try again later."
      [] error.category = "CONFIGURATION" ->
           "System configuration error. Please contact support."
      [] error.category = "RESOURCE" ->
           "Required resource is not available. Please try again later."
      [] OTHER -> "An unexpected error occurred. Please try again later."

\* String(error) of a value that is no Error: the string itself, else
\* text that holds none of the tested substrings
StringOf(error) == IF error.kind = "string" THEN error.message ELSE {}

\* the operation names the handlers pass to executeWithErrorHandling
Operations == {"getting support case", "listing support cases"}

\* the promise of executeWithErrorHandling has not settled; settled is
\* "pending" | "resolved" | "rejected", and the text of a response starts
\* with head, followed for an error by the operation, the user message
\* (userSafe or userRaw) and the debug info
NoResponse ==
    [settled |-> "pending", isError |-> FALSE, head |-> "", operation |-> "-",
     classifiedError |-> RawError("other", "-", {}, NoStatus),
     production |-> FALSE, userSafe |-> "", userRaw |-> {}, debugInfo |-> {}]

\* BaseHandler.formatSuccessResponse: the text is JSON.stringify(result, null, 2)
\* of the data a handler returns
formatSuccessResponse ==
    [NoResponse EXCEPT !.settled = "resolved", !.isError = FALSE, !.head = "JSON"]

\* BaseHandler.formatErrorResponse; production is
\* process.env.NODE_ENV === 'production'.  The text of the response is
\* `Error <operation>: <userMessage>\n\nDebug info: <debugInfo>`, where
\* userMessage is the safe sentence (userSafe) or the message (userRaw).
formatErrorResponse(operation, error, production, id) ==
    LET classifiedError == fromGenericError(error, id) IN
    [settled |-> "resolved",
     isError |-> TRUE,
     head |-> "Error",
     operation |-> operation,
     classifiedError |-> classifiedError,
     production |-> production,
     userSafe |-> IF production THEN getSafeMessage(classifiedError) ELSE "",
     userRaw |-> IF production THEN {} ELSE classifiedError.message,
     debugInfo |-> IF error.kind \in {"Error", "BaseError"}
                   THEN error.message ELSE StringOf(error)]

\* no error: what a resolved operation delivers, and `lastError` undefined
NoFailure == RawError("none", "-", {}, NoStatus)

\* BaseHandler.executeWithErrorHandling, given how robustExecutor.execute
\* settled: the response it resolves with
executeWithErrorHandlingRethrows(operation, failure, production, id) ==
    IF failure = NoFailure
    THEN formatSuccessResponse
    ELSE [NoResponse EXCEPT !.settled = "rejected"]

executeWithErrorHandling(operation, failure, production, id) ==
    IF failure = NoFailure
    THEN formatSuccessResponse
    ELSE formatErrorResponse(operation, classifyError(failure, id), production, id + 1)

\* the values an operation can throw
ThrownValues ==
    {RawError("Error", n, m, NoStatus) :
        n \in {"Error", "TypeError", "AbortError", "NetworkError"},
        m \in SUBSET MessageTokens}
    \cup {RawError("Error", "ApiError", m, st) :
        m \in {{}, {"timeout"}}, st \in HttpStatuses}
    \cup {RawError("object", "-", {}, st) : st \in HttpStatuses \cup {NoStatus}}
    \cup {RawError("string", "-", m, NoStatus) : m \in {{}, {"timeout"}}}
    \cup {RawError("other", "-", {}, NoStatus)}
    \cup {fromHttpResponse(st, 0) : st \in HttpStatuses}
    \cup UNION {{NetworkError(m, "NETWORK_001", 0),
                 ConfigurationError(m, "CONFIG_001", 0),
                 GenericError(m, "UNKNOWN_001", 0)} :
                m \in {{}, {"fetch", "timeout"}}}

\* the value the next classification step is applied to
Current == IF classified = <<>> THEN thrown ELSE classified[Len(classified)].result

Fresh(result) == IF result.id = nextId THEN nextId + 1 ELSE nextId

ClassifyStart ==
    /\ thrown = RawError("other", "-", {}, NoStatus)
    /\ classified = <<>>
    /\ response = NoResponse
    /\ nextId = 1

\* const classifiedError = this.classifyError(error, operation)
ClassifyError ==
    /\ thrown # NoFailure
    /\ Len(classified) < MaxClassifySteps
    /\ response = NoResponse
    /\ LET r == classifyError(Current, nextId) IN
       /\ classified' = Append(classified,
              [fn |-> "classifyError", arg |-> Current, result |-> r])
       /\ nextId' = Fresh(r)
    /\ UNCHANGED <<thrown, response>>
    /\ UNCHANGED <<retryVars, breakerVars, execVars, processVars>>

\* ErrorClassifier.fromGenericError(error, context)
FromGenericError ==
    /\ thrown # NoFailure
    /\ Len(classified) < MaxClassifySteps
    /\ response = NoResponse
    /\ LET r == fromGenericError(Current, nextId) IN
       /\ classified' = Append(classified,
              [fn |-> "fromGenericError", arg |-> Current, result |-> r])
       /\ nextId' = Fresh(r)
    /\ UNCHANGED <<thrown, response>>
    /\ UNCHANGED <<retryVars, breakerVars, execVars, processVars>>

\* ErrorClassifier.fromHttpResponse(status, statusText, ...) on the status
\* of a failed response
FromHttpResponse ==
    /\ classified = <<>>
    /\ response = NoResponse
    /\ thrown.status # NoStatus
    /\ LET r == fromHttpResponse(thrown.status, nextId) IN
       /\ classified' = Append(classified,
              [fn |-> "fromHttpResponse", arg |-> thrown, result |-> r])
       /\ nextId' = Fresh(r)
    /\ UNCHANGED <<thrown, response>>
    /\ UNCHANGED <<retryVars, breakerVars, execVars, processVars>>

\* return this.formatErrorResponse(operation, classifiedError)
FormatErrorResponse(operation, production) ==
    /\ thrown # NoFailure
    /\ response = NoResponse
    /\ LET r == formatErrorResponse(operation, Current, production, nextId) IN
       /\ response' = r
       /\ nextId' = Fresh(r.classifiedError)
    /\ UNCHANGED <<thrown, classified>>
    /\ UNCHANGED <<retryVars, breakerVars, execVars, processVars>>

\* executeWithErrorHandling(operation, handler) from the moment
\* robustExecutor.execute settles, having resolved (thrown = NoFailure) or
\* thrown: the response, and in the catch block the error recorded by the
\* ErrorCollector with the timestamp of the classified error
ExecuteWithErrorHandling(operation, production, timestamp) ==
    /\ classified = <<>>
    /\ response = NoResponse
    /\ LET r == executeWithErrorHandling(operation, thrown, production, nextId) IN
       /\ response' = r
       /\ nextId' = IF thrown = NoFailure THEN nextId ELSE Fresh(r.classifiedError)
       /\ IF thrown = NoFailure \/ r.settled = "rejected"
          THEN UNCHANGED collectorVars
          ELSE LET error == [category |-> r.classifiedError.category,
                             code |-> r.classifiedError.code,
                             timestamp |-> timestamp]
               IN  /\ metrics' = recordError(metrics, error)
                   /\ recorded' = Append(recorded, error)
    /\ UNCHANGED <<thrown, classified>>
    /\ UNCHANGED <<retryVars, breakerVars, execVars, shutdownVars>>

ClassifyNext ==
    \/ ClassifyError
    \/ FromGenericError
    \/ FromHttpResponse
    \/ \E operation \in Operations, production \in BOOLEAN :
           FormatErrorResponse(operation, production)
    \/ \E operation \in Operations, production \in BOOLEAN, timestamp \in Timestamps :
           ExecuteWithErrorHandling(operation, production, timestamp)

----------------------------------------------------------------------------
(* RobustExecutor: retry around [circuit breaker around] timeout           *)

\* the concurrent calls of execute: caller A and caller B
ExecCalls == {"A", "B"}

\* operationName values; the second holds the substring 'timeout'
OperationNames == {"get_case", "poll_timeout"}

\* the tested substrings an operationName holds
NameTokens(name) == IF name = "poll_timeout" THEN {"timeout"} ELSE {}

ExecOptions == [operationName : OperationNames, enableCircuitBreaker : BOOLEAN]

\* the options of the two calls: caller A uses the breaker; caller B has
\* A's operationName, with the breaker or without it, or the other
\* operationName with the breaker
ExecScenarios ==
    {o \in [ExecCalls -> ExecOptions] :
        /\ o["A"].enableCircuitBreaker
        /\ IF o["A"].operationName = "get_case"
           THEN o["B"].enableCircuitBreaker
                    \/ o["B"].operationName = o["A"].operationName
           ELSE o["B"] = o["A"]}

\* retryConfig of the calls: isRetryableError is the predicate of every
\* exported RetryConfig; the delays slept are not part of this specification
ExecRetryConfigs ==
    {[DEFAULT_RETRY_CONFIG EXCEPT !.maxAttempts = k] : k \in 1..MaxExecAttempts}

\* circuitConfig of the calls: the breaker opens at the second failure; one
\* step of the clock is longer than either period
ExecCircuitConfigs ==
    {[failureThreshold |-> 2, recoveryTimeout |-> 0,
      monitoringPeriod |-> 0, minimumRequests |-> 2]}

\* what an invocation of operation() can throw: a typed 404 and the
\* ApiError of a 500 response
OperationErrors ==
    {fromHttpResponse(404, 0), RawError("Error", "ApiError", {}, 500)}

\* new Error(`Circuit breaker is OPEN for: ${this.name}`)
CircuitOpenError(name) ==
    RawError("Error", "Error", {"Circuit breaker is OPEN"} \cup NameTokens(name),
             NoStatus)

\* new TimeoutError(`Operation timed out: ${operationName}`, timeoutMs,
\* 'TIMEOUT_001'); object identities are not told apart in SpecExec
TimedOut(name) == TimeoutError(NameTokens(name), "TIMEOUT_001", 0)

XPending == [kind |-> "pending", error |-> NoFailure]
XResolved == [kind |-> "resolved", error |-> NoFailure]
XRejected(e) == [kind |-> "rejected", error |-> e]

NoBreaker == [id |-> 0, state |-> "-", stats |-> resetStats(0)]

\* new CircuitBreaker(name, config) at time t, the id-th one constructed
NewBreaker(id, t) == [id |-> id, state |-> "CLOSED", stats |-> resetStats(t)]

getCircuitBreakerAlwaysNew(bs, name, cnt, t) ==
    [breakers |-> [bs EXCEPT ![name] = NewBreaker(cnt + 1, t)],
     created |-> cnt + 1]

\* getCircuitBreaker(name, config): the map and the number of breakers
\* constructed that it leaves
getCircuitBreaker(bs, name, cnt, t) ==
    IF bs[name].id = 0
    THEN [breakers |-> [bs EXCEPT ![name] = NewBreaker(cnt + 1, t)],
          created |-> cnt + 1]
    ELSE [breakers |-> bs, created |-> cnt]

UsesBreakerAlways(opt) == TRUE

\* finalOperation = enableCircuitBreaker ? () => breaker.execute(...) : ...
UsesBreaker(opt) == opt.enableCircuitBreaker

RaceDeliversAll(late) == TRUE

\* Promise.race settles with the first of operation() and the timer to
\* settle; late tells that the other one has settled before
RaceDelivers(late) == ~late

breakerOnSuccess(b, cfg, t) ==
    LET u == onSuccess(b.state, b.stats, cfg, t)
    IN  [b EXCEPT !.state = u.state, !.stats = u.stats]

breakerOnFailureUncounted(b, cfg, t) == b

breakerOnFailureNeverOpens(b, cfg, t) ==
    LET u == onFailure(b.state, b.stats, cfg, t)
    IN  [b EXCEPT !.stats = u.stats]

\* catch (error) { this.onFailure(); throw error; } of CircuitBreaker.execute
breakerOnFailure(b, cfg, t) ==
    LET u == onFailure(b.state, b.stats, cfg, t)
    IN  [b EXCEPT !.state = u.state, !.stats = u.stats]

shouldBreakOnNonRetryableOnly(att, cfg, error) == ~isRetryableError(error)

\* if (attempt === config.maxAttempts || !config.retryableErrors(error)) break
shouldBreak(att, cfg, error) ==
    att = cfg.maxAttempts \/ ~isRetryableError(error)

\* the catch block of RetryMechanism.execute for the error of attempt att
AfterFailure(c, att, error) ==
    /\ xlast' = [xlast EXCEPT ![c] = error]
    /\ xattempt' = [xattempt EXCEPT ![c] = att]
    /\ IF shouldBreak(att, config, error)
       THEN /\ xpc' = [xpc EXCEPT ![c] = "done"]
            /\ xout' = [xout EXCEPT ![c] = XRejected(error)]
       ELSE /\ xpc' = [xpc EXCEPT ![c] = "sleeping"]
            /\ UNCHANGED xout

\* what execFrame holds is not touched by RobustExecutor
execFrame ==
    <<retryVars, classifyVars, circuitConfig, state, stats, cpc, cres, calls,
      lastFailureAt, lastSettle, dispatchedIn, processVars>>

\* one turn of the retry loop up to `await operation()`: the first, when
\* execute is called, or the next, when sleep(delay) has resolved.  With the
\* breaker: getCircuitBreaker, updateState, then the circuit-open Error or
\* requests++ and TimeoutManager.execute, which sets the timer and invokes
\* the operation.
Attempt(c) ==
    /\ xpc[c] \in {"idle", "sleeping"}
    /\ LET att == IF xpc[c] = "idle" THEN 1 ELSE xattempt[c] + 1
           name == xopt[c].operationName
       IN  IF UsesBreaker(xopt[c])
           THEN LET g == getCircuitBreaker(breakers, name, created, now)
                    b == g.breakers[name]
                    u == updateState(b.state, b.stats, circuitConfig, now)
                IN  /\ created' = g.created
                    /\ IF u.state = "OPEN"
                       THEN /\ breakers' = [g.breakers EXCEPT ![name] =
                                   [b EXCEPT !.state = u.state, !.stats = u.stats]]
                            /\ AfterFailure(c, att, CircuitOpenError(name))
                       ELSE /\ breakers' = [g.breakers EXCEPT ![name] =
                                   [b EXCEPT !.state = u.state,
                                             !.stats = [u.stats EXCEPT !.requests = @ + 1]]]
                            /\ xpc' = [xpc EXCEPT ![c] = "awaitOp"]
                            /\ xattempt' = [xattempt EXCEPT ![c] = att]
                            /\ UNCHANGED <<xlast, xout>>
           ELSE /\ xpc' = [xpc EXCEPT ![c] = "awaitOp"]
                /\ xattempt' = [xattempt EXCEPT ![c] = att]
                /\ UNCHANGED <<breakers, created, xlast, xout>>
    /\ UNCHANGED <<xopt, abandoned, stale, now>>
    /\ UNCHANGED execFrame

\* the race of the awaited attempt of c settled with v: onSuccess/onFailure
\* of the breaker, then `return result` or the catch block of the retry loop
Deliver(c, v) ==
    /\ IF UsesBreaker(xopt[c])
       THEN breakers' = [breakers EXCEPT ![xopt[c].operationName] =
                IF v = NoFailure
                THEN breakerOnSuccess(@, circuitConfig, now)
                ELSE breakerOnFailure(@, circuitConfig, now)]
       ELSE UNCHANGED breakers
    /\ IF v = NoFailure
       THEN /\ xpc' = [xpc EXCEPT ![c] = "done"]
            /\ xout' = [xout EXCEPT ![c] = XResolved]
            /\ UNCHANGED <<xlast, xattempt>>
       ELSE AfterFailure(c, xattempt[c], v)

\* an invocation of operation() by c resolves (v = NoFailure) or throws v:
\* the one awaited, whose timer then stays pending, or (late) one abandoned
\* by its timeout
OperationSettles(c, v, late) ==
    /\ IF late THEN abandoned[c] > 0 ELSE xpc[c] = "awaitOp"
    /\ abandoned' = IF late THEN [abandoned EXCEPT ![c] = @ - 1] ELSE abandoned
    /\ stale' = IF late THEN stale ELSE [stale EXCEPT ![c] = @ + 1]
    /\ IF RaceDelivers(late)
       THEN Deliver(c, v)
       ELSE UNCHANGED <<breakers, xpc, xattempt, xlast, xout>>
    /\ UNCHANGED <<xopt, created, now>>
    /\ UNCHANGED execFrame

\* a timer set by TimeoutManager.execute for c fires: the one of the awaited
\* attempt, whose operation then keeps running, or (late) one whose
\* operation has settled
TimerFires(c, late) ==
    /\ IF late THEN stale[c] > 0 ELSE xpc[c] = "awaitOp"
    /\ stale' = IF late THEN [stale EXCEPT ![c] = @ - 1] ELSE stale
    /\ abandoned' = IF late THEN abandoned ELSE [abandoned EXCEPT ![c] = @ + 1]
    /\ IF RaceDelivers(late)
       THEN Deliver(c, TimedOut(xopt[c].operationName))
       ELSE UNCHANGED <<breakers, xpc, xattempt, xlast, xout>>
    /\ UNCHANGED <<xopt, created, now>>
    /\ UNCHANGED execFrame

\* Date.now() advances
ExecTick ==
    /\ now < Epoch + MaxExecTime
    /\ now' = now + 1
    /\ UNCHANGED execVars
    /\ UNCHANGED execFrame

ExecNext ==
    \/ \E c \in ExecCalls : Attempt(c)
    \/ \E c \in ExecCalls, v \in OperationErrors \cup {NoFailure}, late \in BOOLEAN :
          OperationSettles(c, v, late)
    \/ \E c \in ExecCalls, late \in BOOLEAN : TimerFires(c, late)
    \/ ExecTick

\* a new RobustExecutor, no call of execute begun
ExecFresh ==
    /\ breakers = [n \in OperationNames |-> NoBreaker]
    /\ created = 0
    /\ xpc = [c \in ExecCalls |-> "idle"]
    /\ xattempt = [c \in ExecCalls |-> 0]
    /\ xlast = [c \in ExecCalls |-> NoFailure]
    /\ xout = [c \in ExecCalls |-> XPending]
    /\ abandoned = [c \in ExecCalls |-> 0]
    /\ stale = [c \in ExecCalls |-> 0]

ExecStart ==
    /\ xopt = [c \in ExecCalls |->
                  [operationName |-> "get_case", enableCircuitBreaker |-> TRUE]]
    /\ ExecFresh

----------------------------------------------------------------------------
(* GracefulShutdownManager (src/src/utils/graceful-shutdown.ts)            *)

ShutdownReason ==
    {"SIGTERM", "SIGINT", "UNCAUGHT_EXCEPTION", "UNHANDLED_REJECTION", "MANUAL"}

\* the timeouts handlers are registered with: a short and a long one
HandlerTimeouts == {1, 2}

ShutdownTimeouts == 1..MaxShutdownTimeout

\* the handlers the array holds
Registered == 1..Len(shutdownHandlers)

\* the handlers shutdown() has invoked
Started == {i \in Registered : hstat[i] # "idle"}

\* the global timer before shutdown() sets it
NoTimer == [set |-> FALSE, fired |-> FALSE, delay |-> 0]

\* executeHandlerWithTimeout: how the promise it returns settles, given how
\* the race of handler() and the handler's timer settled; the catch block
\* logs and swallows
executeHandlerWithTimeoutRethrows(race) ==
    IF race = "resolved" THEN "fulfilled" ELSE "rejected"

executeHandlerWithTimeout(race) ==
    IF race = "resolved"
    THEN "fulfilled"    \* the try block ran to its end
    ELSE "fulfilled"    \* the catch block logged the failure

\* the promises of shutdownPromises
shutdownPromises ==
    [i \in Started |->
        IF hstat[i] = "running" THEN "pending"
        ELSE executeHandlerWithTimeout(hstat[i])]

\* Promise.all over a family of promise states
PromiseAll(ps) ==
    IF \E i \in DOMAIN ps : ps[i] = "rejected" THEN "rejected"
    ELSE IF \A i \in DOMAIN ps : ps[i] = "fulfilled" THEN "fulfilled"
    ELSE "pending"

\* Promise.race([Promise.all(shutdownPromises), globalTimeoutPromise]) has
\* settled
PromiseRaceIgnoresGlobal(all, timer) == all # "pending"

PromiseRace(all, timer) == all # "pending" \/ timer.fired

\* the test at the head of shutdown()
AlreadyShuttingDownNever(flag) == FALSE

AlreadyShuttingDown(flag) == flag

\* the status passed to process.exit
exitStatusOfSignals(rsn) == IF rsn = "MANUAL" THEN 0 ELSE 1

exitStatus(rsn) ==
    IF rsn = "UNCAUGHT_EXCEPTION" \/ rsn = "UNHANDLED_REJECTION" THEN 1 ELSE 0

\* the reason the finally block of the shutdown in progress reads after
\* another call returned early: reason is a parameter of shutdown(), bound to
\* each call, and the call that returns early stores its argument nowhere
reasonOfLatestCall(own, other) == other

reasonOfCallInProgress(own, other) == own

\* a timer whose delay has passed and which has not fired yet
HandlerTimerDue(i) == hstat[i] = "running" /\ elapsed >= shutdownHandlers[i]

GlobalTimerDue == gtimer.set /\ ~gtimer.fired /\ elapsed >= gtimer.delay

\* the await of shutdown() is over: the finally block runs
AwaitOver == isShuttingDown /\ PromiseRace(PromiseAll(shutdownPromises), gtimer)

shutdownFrame ==
    <<retryVars, breakerVars, classifyVars, execVars, collectorVars>>

\* registerHandler(name, handler, timeout)
RegisterHandler(timeout) ==
    /\ ~exited
    /\ Len(shutdownHandlers) < MaxHandlers
    /\ shutdownHandlers' = Append(shutdownHandlers, timeout)
    /\ hstat' = Append(hstat, "idle")
    /\ hcalls' = Append(hcalls, 0)
    /\ UNCHANGED <<shutdownTimeout, isShuttingDown, reason, lastCall, gtimer,
                   elapsed, exited, exitCode>>
    /\ UNCHANGED shutdownFrame

\* setShutdownTimeout(timeoutMs)
SetShutdownTimeout(timeoutMs) ==
    /\ ~exited
    /\ timeoutMs # shutdownTimeout
    /\ shutdownTimeout' = timeoutMs
    /\ UNCHANGED <<shutdownHandlers, isShuttingDown, reason, lastCall, hstat,
                   hcalls, gtimer, elapsed, exited, exitCode>>
    /\ UNCHANGED shutdownFrame

\* shutdown(rsn) up to its await, called directly or by the listener of a
\* signal, of uncaughtException or of unhandledRejection: the early return,
\* or the flag, the global timer and the map over shutdownHandlers
Shutdown(rsn) ==
    /\ ~exited
    /\ IF AlreadyShuttingDown(isShuttingDown)
       THEN /\ lastCall' = "ignored"
            /\ reason' = reasonOfCallInProgress(reason, rsn)
            /\ UNCHANGED <<isShuttingDown, hstat, hcalls, gtimer, elapsed>>
       ELSE /\ lastCall' = "started"
            /\ isShuttingDown' = TRUE
            /\ reason' = rsn
            /\ gtimer' = [set |-> TRUE, fired |-> FALSE, delay |-> shutdownTimeout]
            /\ hstat' = [i \in Registered |-> "running"]
            /\ hcalls' = [i \in Registered |-> hcalls[i] + 1]
            /\ elapsed' = 0
    /\ UNCHANGED <<shutdownHandlers, shutdownTimeout, exited, exitCode>>
    /\ UNCHANGED shutdownFrame

\* the promise of handler() settles before the handler's timer fires
HandlerSettles(i, how) ==
    /\ ~exited
    /\ hstat[i] = "running"
    /\ hstat' = [hstat EXCEPT ![i] = how]
    /\ UNCHANGED <<shutdownHandlers, shutdownTimeout, isShuttingDown, reason,
                   lastCall, hcalls, gtimer, elapsed, exited, exitCode>>
    /\ UNCHANGED shutdownFrame

\* the timer of executeHandlerWithTimeout fires before handler() settles
HandlerTimeout(i) ==
    /\ ~exited
    /\ HandlerTimerDue(i)
    /\ hstat' = [hstat EXCEPT ![i] = "timeout"]
    /\ UNCHANGED <<shutdownHandlers, shutdownTimeout, isShuttingDown, reason,
                   lastCall, hcalls, gtimer, elapsed, exited, exitCode>>
    /\ UNCHANGED shutdownFrame

\* the global timer of shutdown() fires
GlobalTimeout ==
    /\ ~exited
    /\ GlobalTimerDue
    /\ gtimer' = [gtimer EXCEPT !.fired = TRUE]
    /\ UNCHANGED <<shutdownHandlers, shutdownTimeout, isShuttingDown, reason,
                   lastCall, hstat, hcalls, elapsed, exited, exitCode>>
    /\ UNCHANGED shutdownFrame

\* shutdown() after its await: catch, finally, process.exit
ProcessExit ==
    /\ ~exited
    /\ AwaitOver
    /\ exited' = TRUE
    /\ exitCode' = exitStatus(reason)
    /\ UNCHANGED <<shutdownHandlers, shutdownTimeout, isShuttingDown, reason,
                   lastCall, hstat, hcalls, gtimer, elapsed>>
    /\ UNCHANGED shutdownFrame

\* time passes during a shutdown; a due timer fires first, and the
\* continuation of a settled await runs first
ShutdownTick ==
    /\ ~exited
    /\ isShuttingDown
    /\ ~AwaitOver
    /\ ~GlobalTimerDue
    /\ \A i \in Registered : ~HandlerTimerDue(i)
    /\ elapsed' = elapsed + 1
    /\ UNCHANGED <<shutdownHandlers, shutdownTimeout, isShuttingDown, reason,
                   lastCall, hstat, hcalls, gtimer, exited, exitCode>>
    /\ UNCHANGED shutdownFrame

ShutdownNext ==
    \/ \E timeout \in HandlerTimeouts : RegisterHandler(timeout)
    \/ \E timeoutMs \in ShutdownTimeouts : SetShutdownTimeout(timeoutMs)
    \/ \E rsn \in ShutdownReason : Shutdown(rsn)
    \/ \E i \in Registered : \E how \in {"resolved", "rejected"} : HandlerSettles(i, how)
    \/ \E i \in Registered : HandlerTimeout(i)
    \/ GlobalTimeout
    \/ ProcessExit
    \/ ShutdownTick

\* the manager after construction
ShutdownStart ==
    /\ shutdownHandlers = <<>>
    /\ shutdownTimeout = MaxShutdownTimeout
    /\ isShuttingDown = FALSE
    /\ reason = "MANUAL"
    /\ lastCall = "none"
    /\ hstat = <<>>
    /\ hcalls = <<>>
    /\ gtimer = NoTimer
    /\ elapsed = 0
    /\ exited = FALSE
    /\ exitCode = 0

----------------------------------------------------------------------------
(* The specifications                                                      *)

ProcessStart == ShutdownStart /\ CollectorStart

ExecInit ==
    /\ xopt \in ExecScenarios
    /\ ExecFresh
    /\ config \in ExecRetryConfigs
    /\ RetryStart
    /\ circuitConfig \in ExecCircuitConfigs
    /\ BreakerStart
    /\ ClassifyStart
    /\ ProcessStart

SpecExec == ExecInit /\ [][ExecNext]_vars

\* retryConfig of the calls whose termination is checked: a single attempt,
\* and an attempt with one retry
ExecLiveRetryConfigs ==
    {[DEFAULT_RETRY_CONFIG EXCEPT !.maxAttempts = k] : k \in {1, 2}}

ExecLiveInit ==
    /\ xopt \in ExecScenarios
    /\ ExecFresh
    /\ config \in ExecLiveRetryConfigs
    /\ RetryStart
    /\ circuitConfig \in ExecCircuitConfigs
    /\ BreakerStart
    /\ ClassifyStart
    /\ ProcessStart

\* the timer of an awaited attempt fires unless the operation settles first,
\* and sleep(delay) resolves; an operation may never settle, and nothing
\* obliges a caller to call execute
SpecExecLive ==
    /\ ExecLiveInit
    /\ [][ExecNext]_vars
    /\ \A c \in ExecCalls :
          /\ WF_vars(TimerFires(c, FALSE))
          /\ WF_vars(xpc[c] = "sleeping" /\ Attempt(c))

ShutdownInit ==
    /\ ShutdownStart
    /\ CollectorStart
    /\ config = DEFAULT_RETRY_CONFIG
    /\ RetryStart
    /\ circuitConfig = DEFAULT_CIRCUIT_CONFIG
    /\ BreakerStart
    /\ ClassifyStart
    /\ ExecStart

SpecShutdown == ShutdownInit /\ [][ShutdownNext]_vars

\* timers fire, time passes and continuations run; a handler may hang
SpecShutdownLive ==
    /\ ShutdownInit
    /\ [][ShutdownNext]_vars
    /\ WF_vars(ShutdownTick)
    /\ WF_vars(GlobalTimeout)
    /\ WF_vars(\E i \in Registered : HandlerTimeout(i))
    /\ WF_vars(ProcessExit)

CollectorInit == ShutdownInit

SpecCollector == CollectorInit /\ [][CollectorNext]_vars

BreakerInit ==
    /\ circuitConfig \in CircuitBreakerConfigs
    /\ BreakerStart
    /\ config = DEFAULT_RETRY_CONFIG
    /\ RetryStart
    /\ ClassifyStart
    /\ ExecStart
    /\ ProcessStart

SpecBreaker == BreakerInit /\ [][BreakerNext]_vars

RetryInit ==
    /\ config \in RetryConfigs
    /\ RetryStart
    /\ circuitConfig = DEFAULT_CIRCUIT_CONFIG
    /\ BreakerStart
    /\ ClassifyStart
    /\ ExecStart
    /\ ProcessStart

SpecRetry == RetryInit /\ [][RetryNext]_vars

ClassifyInit ==
    /\ thrown \in ThrownValues \cup {NoFailure}
    /\ classified = <<>>
    /\ response = NoResponse
    /\ nextId = 1
    /\ config = DEFAULT_RETRY_CONFIG
    /\ RetryStart
    /\ circuitConfig = DEFAULT_CIRCUIT_CONFIG
    /\ BreakerStart
    /\ ExecStart
    /\ ProcessStart

SpecClassify == ClassifyInit /\ [][ClassifyNext]_vars

----------------------------------------------------------------------------
(* Claims about RetryMechanism (checked under SpecRetry)                   *)

IsRetryableFailure(entry) == ~entry.ok /\ retryableErrors(config, entry.error)
IsNonRetryableFailure(entry) == ~entry.ok /\ ~retryableErrors(config, entry.error)

\* the operation failed its first k invocations retryably and then succeeded
FailedKThenSucceeded(k) ==
    /\ Len(opLog) >= k + 1
    /\ \A i \in 1..k : IsRetryableFailure(opLog[i])
    /\ opLog[k + 1].ok

\* C1: with maxAttempts = N and k < N, k retryable failures followed by a
\* success give exactly k+1 invocations, exactly k sleeps, and the call
\* resolves with the value of invocation k+1.
C1_SucceedsAfterKFailures ==
    \A k \in 0..(config.maxAttempts - 1) :
        FailedKThenSucceeded(k) =>
            /\ rpc = "done"
            /\ invocations = k + 1
            /\ Len(sleeps) = k
            /\ outcome = Resolved(opLog[k + 1].value)

C1_Witness ==
    /\ config.maxAttempts = 3
    /\ FailedKThenSucceeded(2)
    /\ outcome.kind = "resolved"

\* C2: a failure that config.retryableErrors refuses makes execute reject
\* with that very error: no later invocation, no sleep after it.
C2_NonRetryableStops ==
    \A i \in 1..Len(opLog) :
        IsNonRetryableFailure(opLog[i]) =>
            /\ rpc = "done"
            /\ outcome = Rejected(opLog[i].error)
            /\ invocations = i
            /\ Len(sleeps) = i - 1

C2_Witness ==
    /\ config.maxAttempts = 3
    /\ Len(opLog) = 1
    /\ IsNonRetryableFailure(opLog[1])
    /\ invocations = 1

\* C3: when every attempt fails retryably the operation runs exactly
\* maxAttempts times, maxAttempts-1 sleeps happen, and the call rejects with
\* the error of the last attempt; the operation never runs more often.
C3_ExhaustionSurfacesLastError ==
    /\ invocations <= config.maxAttempts
    /\ (/\ Len(opLog) = config.maxAttempts
        /\ \A i \in 1..Len(opLog) : IsRetryableFailure(opLog[i]))
       => /\ rpc = "done"
          /\ invocations = config.maxAttempts
          /\ Len(sleeps) = config.maxAttempts - 1
          /\ outcome = Rejected(opLog[config.maxAttempts].error)
          /\ \A i \in 1..(config.maxAttempts - 1) : outcome.error # opLog[i].error

C3_Witness ==
    /\ config.maxAttempts = 3
    /\ Len(opLog) = 3
    /\ \A i \in 1..3 : IsRetryableFailure(opLog[i])
    /\ outcome.kind = "rejected"

\* C4: every delay slept between two attempts is <= config.maxDelay,
\* with jitter off and with jitter on.
C4_DelayAtMostMaxDelay ==
    \A a \in 1..Len(sleeps) : RatLeq(sleeps[a], Rat(config.maxDelay, 1))

\* min(initialDelay * backoffFactor^(a-1), maxDelay), as the claim writes it
BackoffOf(a) ==
    LET num == config.initialDelay * Pow(config.backoffFactor.n, a - 1)
        den == Pow(config.backoffFactor.d, a - 1)
    IN  IF num <= config.maxDelay * den THEN Rat(num, den) ELSE Rat(config.maxDelay, 1)

RatEq(a, b) == a.n * b.d = b.n * a.d
RatTimes(a, b) == Rat(a.n * b.n, a.d * b.d)
RatFloor(a) == Rat(a.n \div a.d, 1)

NonDecreasingWithoutJitter ==
    ~config.jitter =>
        \A a \in 1..(Len(sleeps) - 1) : RatLeq(sleeps[a], sleeps[a + 1])

\* C5 as stated: the delay after failed attempt a is BackoffOf(a) with jitter
\* off and BackoffOf(a) times a factor within [0.75, 1.25] with jitter on;
\* with jitter off the delays are non-decreasing.
C5_DelayIsScaledBackoff ==
    /\ \A a \in 1..Len(sleeps) :
          IF config.jitter
          THEN /\ RatLeq(RatTimes(Rat(3, 4), BackoffOf(a)), sleeps[a])
               /\ RatLeq(sleeps[a], RatTimes(Rat(5, 4), BackoffOf(a)))
          ELSE RatEq(sleeps[a], BackoffOf(a))
    /\ NonDecreasingWithoutJitter

\* C5 amended: with jitter on the delay is the product rounded down to a
\* whole number, so it lies between floor(0.75 * BackoffOf(a)) and
\* 1.25 * BackoffOf(a).
C5_DelayIsFlooredScaledBackoff ==
    /\ \A a \in 1..Len(sleeps) :
          IF config.jitter
          THEN /\ sleeps[a].d = 1
               /\ RatLeq(RatFloor(RatTimes(Rat(3, 4), BackoffOf(a))), sleeps[a])
               /\ RatLeq(sleeps[a], RatTimes(Rat(5, 4), BackoffOf(a)))
          ELSE RatEq(sleeps[a], BackoffOf(a))
    /\ NonDecreasingWithoutJitter

C5_Witness ==
    /\ config.jitter
    /\ Len(sleeps) = 2
    /\ ~RatLeq(RatTimes(Rat(3, 4), BackoffOf(2)), sleeps[2])

----------------------------------------------------------------------------
(* Claims about CircuitBreaker (checked under SpecBreaker)                 *)

NoneInFlight == \A c \in Callers : cpc[c] = "idle"

\* M requests of the current window were dispatched and have all completed,
\* and at least F failures were recorded
ThresholdsMet ==
    /\ NoneInFlight
    /\ stats.requests >= circuitConfig.minimumRequests
    /\ stats.failures >= circuitConfig.failureThreshold

\* C6 as stated: once minimumRequests requests have been dispatched and have
\* completed within one monitoring window and at least failureThreshold of
\* them failed, the breaker is OPEN, whatever the order of the outcomes.
C6_OpenOnceThresholdsMet == ThresholdsMet => state = "OPEN"

\* C6 amended: ... the breaker is OPEN if the request that completed last
\* failed (the thresholds are only evaluated when a failure is recorded).
C6_OpenWhenLastCompletionFailed ==
    (ThresholdsMet /\ lastSettle = "failure") => state = "OPEN"

C6_Witness ==
    /\ ThresholdsMet
    /\ lastSettle = "failure"
    /\ circuitConfig.minimumRequests = 2
    /\ circuitConfig.failureThreshold = 1
    /\ stats.requests = 2
    /\ stats.failures = 1
    /\ \E c \in Callers : cres[c] = "ok"
    /\ state = "OPEN"

\* CircuitBreaker.execute is called in this step
IsCall == calls' = calls + 1
\* the wrapped operation is invoked in this step
IsDispatch == \E c \in Callers : cpc[c] = "idle" /\ cpc'[c] = "inflight"
WindowElapsed == now - stats.windowStart > circuitConfig.monitoringPeriod

\* C7: an execute call that finds the breaker OPEN is rejected with the
\* circuit-open error: the operation is not invoked, no caller's position
\* changes, and requests, failures and lastFailureTime stay as they were;
\* every dispatched call adds exactly one to requests (counted from 0 when
\* the call starts a new window).
C7_RejectionHasNoEffect ==
    [][IsCall =>
         /\ (state' = "OPEN") <=> ~IsDispatch
         /\ ~IsDispatch =>
              /\ cpc' = cpc
              /\ \E c \in Callers :
                    /\ cpc[c] = "idle"
                    /\ cres' = [cres EXCEPT ![c] = "circuitOpen"]
              /\ stats'.requests = stats.requests
              /\ stats'.failures = stats.failures
              /\ stats'.lastFailureTime = stats.lastFailureTime
         /\ IsDispatch =>
              stats'.requests = (IF WindowElapsed THEN 0 ELSE stats.requests) + 1
      ]_vars

C7_Witness ==
    /\ state = "OPEN"
    /\ \E c \in Callers : cres[c] = "circuitOpen"
    /\ NoneInFlight
    /\ calls = 2
    /\ stats.requests > 0

\* C8: an OPEN breaker stays OPEN, and invokes no operation, in every step
\* taken within recoveryTimeout of the most recent recorded failure, also
\* when the monitoring window has elapsed in between.
C8_CooldownHonoured ==
    [][(state = "OPEN" /\ now - lastFailureAt <= circuitConfig.recoveryTimeout)
         => (state' = "OPEN" /\ ~IsDispatch)]_vars

\* C9: a call that arrives at an OPEN breaker more than recoveryTimeout
\* after lastFailureTime leaves the breaker HALF_OPEN and is dispatched.
C9_OpenNeverStuck ==
    [][(/\ IsCall
        /\ state = "OPEN"
        /\ now - stats.lastFailureTime > circuitConfig.recoveryTimeout)
         => (state' = "HALF_OPEN" /\ IsDispatch)]_vars

C9_Witness ==
    /\ state = "HALF_OPEN"
    /\ now - lastFailureAt > circuitConfig.recoveryTimeout
    /\ ~WindowElapsed
    /\ stats.lastFailureTime = lastFailureAt
    /\ \E c \in Callers : cpc[c] = "inflight"

IsSuccessOf(c) == cpc[c] = "inflight" /\ cpc'[c] = "idle" /\ cres'[c] = "ok"

\* C10: a success while HALF_OPEN leaves the breaker CLOSED with requests,
\* failures and lastFailureTime 0; a success while CLOSED or OPEN changes
\* neither the state nor these counters.
C10_SuccessClosesOnlyFromHalfOpen ==
    [][\A c \in Callers : IsSuccessOf(c) =>
         IF state = "HALF_OPEN"
         THEN /\ state' = "CLOSED"
              /\ stats'.requests = 0
              /\ stats'.failures = 0
              /\ stats'.lastFailureTime = 0
         ELSE /\ state' = state
              /\ stats'.requests = stats.requests
              /\ stats'.failures = stats.failures
              /\ stats'.lastFailureTime = stats.lastFailureTime
      ]_vars

C10_Witness ==
    /\ state = "CLOSED"
    /\ lastSettle = "success"
    /\ lastFailureAt > 0
    /\ stats.requests = 0
    /\ stats.failures = 0
    /\ stats.lastFailureTime = 0

\* CircuitState: the steps the state machine may take
AllowedTransitions ==
    {<<"CLOSED", "OPEN">>, <<"OPEN", "HALF_OPEN">>,
     <<"HALF_OPEN", "CLOSED">>, <<"HALF_OPEN", "OPEN">>}

\* C11: the breaker starts CLOSED and its state only ever changes
\* CLOSED->OPEN, OPEN->HALF_OPEN, HALF_OPEN->CLOSED or HALF_OPEN->OPEN.
C11_OnlyAllowedTransitions ==
    /\ state = "CLOSED"
    /\ [][state' # state => <<state, state'>> \in AllowedTransitions]_vars

\* the breaker has gone CLOSED -> OPEN -> HALF_OPEN and its probe has
\* settled with a failure
C11_Witness ==
    /\ state = "HALF_OPEN"
    /\ lastSettle = "failure"
    /\ NoneInFlight
    /\ stats.failures >= 1
    /\ calls >= 2

\* a step of Execute: a call of CircuitBreaker.execute begins
CallBegins == calls' # calls

\* a step of OperationFails: the catch block of execute runs onFailure()
FailureRecorded ==
    \E c \in Callers : cpc[c] = "inflight" /\ cpc'[c] = "idle" /\ cres'[c] = "error"

\* the counters after a step are those resetStats() leaves at the current
\* time, plus the requests++ of the call when the step is a dispatched call
JustReset ==
    /\ stats'.failures = 0
    /\ stats'.windowStart = now
    /\ stats'.requests = IF CallBegins /\ state' # "OPEN" THEN 1 ELSE 0

\* C29: requests and failures are reset together: a step in which either
\* counter decreases is a resetStats() that zeroes both and sets windowStart
\* to the current time (a call that resets then counts itself: requests++);
\* and a call that begins after the monitoring period has elapsed resets
\* them in whatever state the breaker is.
C29_CountersResetTogether ==
    /\ [][(stats'.requests < stats.requests \/ stats'.failures < stats.failures)
             => JustReset]_vars
    /\ [][(CallBegins /\ now - stats.windowStart > circuitConfig.monitoringPeriod)
             => JustReset]_vars

\* a call found a tripped breaker after the monitoring period: the counters
\* were reset and the call dispatched as the probe
C29_Witness ==
    /\ state = "HALF_OPEN"
    /\ stats.failures = 0
    /\ stats.requests = 1
    /\ stats.windowStart = now
    /\ now > Epoch

\* the thresholds are met by the counters after the step
ThresholdsMetAfter ==
    /\ stats'.failures >= circuitConfig.failureThreshold
    /\ stats'.requests >= circuitConfig.minimumRequests

\* C30: the breaker enters OPEN only in a step that records a failure, and a
\* step that records a failure increments failures and then moves to OPEN,
\* from CLOSED and from HALF_OPEN alike, exactly when failures >=
\* failureThreshold and requests >= minimumRequests; otherwise it leaves the
\* state as it is.
C30_OpensExactlyOnThresholdFailure ==
    /\ [][(state # "OPEN" /\ state' = "OPEN") => (FailureRecorded /\ ThresholdsMetAfter)]_vars
    /\ [][FailureRecorded =>
             /\ stats'.failures = stats.failures + 1
             /\ stats'.requests = stats.requests
             /\ IF ThresholdsMetAfter THEN state' = "OPEN" ELSE state' = state]_vars

\* a probe failed in HALF_OPEN below the thresholds and left the breaker
\* HALF_OPEN
C30_Witness ==
    /\ state = "HALF_OPEN"
    /\ lastSettle = "failure"
    /\ stats.failures = 1
    /\ stats.requests = 1
    /\ circuitConfig.minimumRequests = 2

----------------------------------------------------------------------------
(* Claims about the error taxonomy (checked under SpecClassify)            *)

Steps == 1..Len(classified)

HttpSteps == {i \in Steps : classified[i].fn = "fromHttpResponse"}

\* category and retryable flag of the error a status was mapped to
Maps(i, category, retryable) ==
    /\ classified[i].result.category = category
    /\ classified[i].result.retryable = retryable

\* the rows of the status table on which statement and code agree
KnownRows(i) ==
    LET st == classified[i].arg.status IN
    /\ st = 401 => Maps(i, "AUTHENTICATION", FALSE)
    /\ st = 403 => Maps(i, "AUTHORIZATION", FALSE)
    /\ st \in {400, 422} => Maps(i, "VALIDATION", FALSE)
    /\ st = 429 => Maps(i, "API_CLIENT", TRUE)
    /\ st \in {408, 504} => Maps(i, "TIMEOUT", TRUE)
    /\ st = 404 => classified[i].result.category = "RESOURCE"
    /\ st >= 500 /\ st # 504 => Maps(i, "API_CLIENT", TRUE)

Other4xx == {st \in HttpStatuses : st >= 400 /\ st < 500}
                \ {400, 401, 403, 404, 408, 422, 429}

\* C17 as stated: fromHttpResponse maps 401 to AUTHENTICATION/false, 403 to
\* AUTHORIZATION/false, 400 and 422 to VALIDATION/false, 429 to
\* API_CLIENT/true, 408 and 504 to TIMEOUT/true, 404 to RESOURCE, every
\* status >= 500 to API_CLIENT/true and every other 4xx to API_CLIENT/true.
C17_StatusTableAsStated ==
    \A i \in HttpSteps :
        /\ KnownRows(i)
        /\ classified[i].arg.status \in Other4xx => Maps(i, "API_CLIENT", TRUE)

\* C17 amended: the same rows, but every other status (the other 4xx among
\* them) is mapped to API_CLIENT/false, except the falsy status 0, which is
\* mapped to API_CLIENT/true.
C17_StatusTable ==
    \A i \in HttpSteps :
        LET st == classified[i].arg.status IN
        /\ KnownRows(i)
        /\ (st < 500 /\ st \notin {0, 400, 401, 403, 404, 408, 422, 429})
               => Maps(i, "API_CLIENT", FALSE)
        /\ st = 0 => Maps(i, "API_CLIENT", TRUE)

C17_Witness ==
    \E i \in HttpSteps :
        /\ classified[i].arg.status = 409
        /\ classified[i].result.category = "API_CLIENT"
        /\ ~classified[i].result.retryable

\* C19: fromGenericError and classifyError return an already-typed error as
\* the same object with the same metadata, so classifying twice gives what
\* classifying once gave, and formatErrorResponse formats the typed error it
\* was given, not a re-wrapped one.
C19_ReclassificationIdempotent ==
    /\ \A i \in Steps :
          (classified[i].fn \in {"fromGenericError", "classifyError"}
              /\ classified[i].arg.kind = "BaseError")
             => classified[i].result = classified[i].arg
    /\ \A i \in Steps :
          (i > 1 /\ classified[i].fn \in {"fromGenericError", "classifyError"})
             => classified[i].result = classified[i - 1].result
    /\ (response.isError /\ Current.kind = "BaseError")
          => response.classifiedError = Current

\* a typed UNKNOWN error whose message holds "timeout" went through both
\* classifiers and formatErrorResponse
C19_Witness ==
    /\ thrown.kind = "BaseError"
    /\ thrown.category = "UNKNOWN"
    /\ "timeout" \in thrown.message
    /\ Len(classified) = 2
    /\ classified[1].fn = "classifyError"
    /\ classified[2].fn = "fromGenericError"
    /\ response.isError

\* typed errors of every category that differ in message, code, severity
\* and retryable flag
TypedErrors ==
    {BaseError("BaseError", category, severity, code, retryable, message, 0) :
        category \in ErrorCategory, severity \in {"LOW", "CRITICAL"},
        code \in {"UNKNOWN_001", "HTTP_404"}, retryable \in BOOLEAN,
        message \in {{}, {"fetch", "timeout"}}}

\* C20: getSafeMessage depends on the category alone: two typed errors of
\* one category have the same safe message whatever else differs, and the
\* safe message of a production response is that of every typed error of
\* the category of the error it formats.
C20_SafeMessageByCategoryAlone ==
    /\ \A e1, e2 \in TypedErrors :
          e1.category = e2.category => getSafeMessage(e1) = getSafeMessage(e2)
    /\ (response.isError /\ response.production) =>
          \A e \in TypedErrors :
              e.category = response.classifiedError.category
                  => response.userSafe = getSafeMessage(e)

C20_Witness ==
    /\ response.isError
    /\ response.production
    /\ response.classifiedError.category = "UNKNOWN"
    /\ response.classifiedError.message # {}
    /\ response.userSafe # ""

\* the text of a response: the user message and the debug info
ResponseText(r) == <<r.userSafe, r.userRaw, r.debugInfo>>

\* C21: in production the text of an error response depends on the category
\* of the classified error alone: formatting any other typed error of that
\* category gives the same text.
C21_ProductionTextByCategoryAlone ==
    (response.isError /\ response.production) =>
        \A e \in TypedErrors :
            e.category = response.classifiedError.category
                => ResponseText(formatErrorResponse(response.operation, e, TRUE, nextId))
                       = ResponseText(response)

\* C27: executeWithErrorHandling never lets a failure escape: its promise
\* resolves; for every failure of the wrapped operation the response has
\* isError = true and a text that begins with 'Error' and names the
\* operation; and isError = false exactly when the operation succeeded.
C27_FailuresBecomeErrorResponses ==
    response.settled # "pending" =>
        /\ response.settled = "resolved"
        /\ thrown # NoFailure =>
               /\ response.isError
               /\ response.head = "Error"
               /\ response.operation \in Operations
        /\ ~response.isError <=> thrown = NoFailure

\* the ApiError of a failed request came back as an error response, and the
\* collector recorded it
C27_Witness ==
    /\ thrown.name = "ApiError"
    /\ response.settled = "resolved"
    /\ response.isError
    /\ response.operation = "listing support cases"
    /\ Len(recorded) = 1

\* C28: for every raw failure an operation can throw, the default retry
\* decision (isRetryableError) equals the retryable flag of the typed error
\* into which classifyError classifies it.
C28_RetryDecisionIsTheClassifiersVerdict ==
    (classified # <<>> /\ classified[1].fn = "classifyError") =>
        isRetryableError(classified[1].arg) = classified[1].result.retryable

----------------------------------------------------------------------------
(* Claims about TimeoutManager and RobustExecutor (checked under SpecExec) *)

NameOf(c) == xopt[c].operationName

Enabled(c) == xopt[c].enableCircuitBreaker

\* what belongs to call c alone
CallState(c) == <<xpc[c], xattempt[c], xlast[c], xout[c], abandoned[c], stale[c]>>

\* the step is one of call c
StepOf(c) == CallState(c)' # CallState(c)

\* what a settling race can change
Delivered == <<breakers, xpc, xattempt, xlast, xout>>

\* the timer of the awaited attempt of c fires before its operation settles
TimerFirst(c) == xpc[c] = "awaitOp" /\ abandoned'[c] = abandoned[c] + 1

\* the awaited operation of c settles before its timer fires
OperationFirst(c) == xpc[c] = "awaitOp" /\ stale'[c] = stale[c] + 1

\* an operation of c abandoned by its timeout settles
LateOperation(c) == abandoned'[c] = abandoned[c] - 1

\* a timer of c fires whose operation has settled
LateTimer(c) == stale'[c] = stale[c] - 1

\* C12: the race is settled by whichever of operation and timer comes
\* first: the timer first gives a TimeoutError (TIMEOUT, retryable) and
\* leaves the operation running; the operation first delivers its result or
\* error; what comes later changes neither what was delivered nor a breaker.
C12_FirstToSettleWins ==
    [][\A c \in ExecCalls :
         /\ TimerFirst(c) =>
               /\ xlast'[c] = TimedOut(NameOf(c))
               /\ xlast'[c].kind = "BaseError"
               /\ xlast'[c].category = "TIMEOUT"
               /\ xlast'[c].retryable
               /\ xpc'[c] = "done" => xout'[c] = XRejected(xlast'[c])
         /\ OperationFirst(c) =>
               \/ xout'[c] = XResolved /\ xlast'[c] = xlast[c]
               \/ xlast'[c] \in OperationErrors /\ xout'[c] # XResolved
         /\ (LateOperation(c) \/ LateTimer(c)) => Delivered' = Delivered
      ]_vars

\* the only attempt of a call timed out, and the operation it left running
\* has settled since
C12_Witness ==
    \E c \in ExecCalls :
        /\ config.maxAttempts = 1
        /\ Enabled(c)
        /\ xout[c] = XRejected(TimedOut(NameOf(c)))
        /\ abandoned[c] = 0
        /\ breakers[NameOf(c)].stats.failures = 1

\* call c begins an attempt: the first, or the next after its sleep
AttemptStep(c) == xattempt'[c] # xattempt[c]

Dispatched(c) == AttemptStep(c) /\ xpc'[c] = "awaitOp"

\* the awaited attempt of c fails
FailedAttempt(c) ==
    /\ xpc[c] = "awaitOp"
    /\ xpc'[c] \in {"sleeping", "done"}
    /\ xout'[c] # XResolved

\* timers of c not yet fired
Timers(c) == stale[c] + (IF xpc[c] = "awaitOp" THEN 1 ELSE 0)

\* requests as the window update of an attempt at the present time leaves it
RequestsInWindow(b) ==
    IF b.id = 0 \/ now - b.stats.windowStart > circuitConfig.monitoringPeriod
    THEN 0 ELSE b.stats.requests

\* C13: with the breaker enabled every attempt goes through the breaker of
\* its operationName: it is rejected as circuit-open or dispatched with a
\* timer of its own; a dispatch adds one to requests (of the current
\* window), a failed attempt, a timeout included, adds one to failures.
C13_AttemptsGoThroughBreaker ==
    [][\A c \in ExecCalls : Enabled(c) =>
         /\ AttemptStep(c) =>
               /\ breakers'[NameOf(c)].id # 0
               /\ \/ Dispatched(c) /\ breakers'[NameOf(c)].state # "OPEN"
                  \/ /\ xlast'[c] = CircuitOpenError(NameOf(c))
                     /\ breakers'[NameOf(c)].state = "OPEN"
                     /\ breakers'[NameOf(c)].stats.requests
                            = RequestsInWindow(breakers[NameOf(c)])
         /\ Dispatched(c) =>
               /\ breakers'[NameOf(c)].stats.requests
                      = RequestsInWindow(breakers[NameOf(c)]) + 1
               /\ Timers(c)' = Timers(c) + 1
         /\ FailedAttempt(c) =>
               breakers'[NameOf(c)].stats.failures
                   = breakers[NameOf(c)].stats.failures + 1
      ]_vars

\* a second attempt is in flight after a first that timed out
C13_Witness ==
    \E c \in ExecCalls :
        /\ Enabled(c)
        /\ xattempt[c] = 2
        /\ xpc[c] = "awaitOp"
        /\ xlast[c] = TimedOut(NameOf(c))
        /\ breakers[NameOf(c)].stats.requests = 2
        /\ breakers[NameOf(c)].stats.failures = 1

\* C14: whenever execute rejects, the rejection value is a typed error (a
\* BaseError).
C14_RejectsWithTypedError ==
    \A c \in ExecCalls :
        xout[c].kind = "rejected" => xout[c].error.kind = "BaseError"

IsCircuitOpenError(e) == "Circuit breaker is OPEN" \in e.message

\* C15: a call with enableCircuitBreaker = false is never rejected as
\* circuit-open, and none of its steps creates or changes a breaker.
C15_DisabledLeavesBreakersAlone ==
    /\ [](\A c \in ExecCalls : ~Enabled(c) =>
             ~IsCircuitOpenError(xlast[c]) /\ ~IsCircuitOpenError(xout[c].error))
    /\ [][\A c \in ExecCalls : (~Enabled(c) /\ StepOf(c)) =>
             breakers' = breakers /\ created' = created]_vars

\* a call without the breaker has failed once and is at its second attempt
\* while the breaker of its operationName is OPEN
C15_Witness ==
    \E c \in ExecCalls :
        /\ ~Enabled(c)
        /\ xattempt[c] = 2
        /\ xpc[c] = "awaitOp"
        /\ breakers[NameOf(c)].state = "OPEN"

\* C16: a name has a breaker exactly when a breaker-enabled call of that
\* name has begun an attempt; a breaker once there stays the same object;
\* as many breakers were constructed as names have one; a step of a call
\* changes the breaker of no other name.
C16_OneBreakerPerName ==
    /\ [](/\ \A n \in OperationNames :
               breakers[n].id # 0 <=>
                  \E c \in ExecCalls : Enabled(c) /\ NameOf(c) = n /\ xattempt[c] >= 1
          /\ created = Cardinality({n \in OperationNames : breakers[n].id # 0}))
    /\ [][/\ \A n \in OperationNames :
               breakers[n].id # 0 => breakers'[n].id = breakers[n].id
          /\ \A c \in ExecCalls : StepOf(c) =>
               \A n \in OperationNames \ {NameOf(c)} : breakers'[n] = breakers[n]
         ]_vars

\* both names have their breaker, and the first one built has been used by
\* two attempts
C16_Witness ==
    /\ \A n \in OperationNames : breakers[n].id # 0
    /\ \E n \in OperationNames :
          breakers[n].id = 1 /\ breakers[n].stats.requests = 2

NotFoundError == fromHttpResponse(404, 0)

\* C18: a failure classified from HTTP 404 is not retried: once an attempt
\* has failed with it, the call is over.
C18_NotFoundNotRetried ==
    \A c \in ExecCalls : xlast[c] = NotFoundError => xpc[c] = "done"

----------------------------------------------------------------------------
(* Claims about GracefulShutdownManager (checked under SpecShutdown and    *)
(* SpecShutdownLive)                                                       *)

\* C22: every registered handler is invoked at most once whatever the
\* interleaving of shutdown calls; a shutdown call made while isShuttingDown
\* is set invokes no handler, sets no timer and does not exit; and
\* isShuttingDown, once set, is never cleared.
C22_HandlersInvokedAtMostOnce ==
    /\ [](\A i \in Registered : hcalls[i] <= 1)
    /\ [][isShuttingDown => \A i \in Registered : hcalls'[i] = hcalls[i]]_vars
    /\ [][(isShuttingDown /\ lastCall' # lastCall)
             => UNCHANGED <<shutdownHandlers, shutdownTimeout, isShuttingDown,
                            reason, hstat, hcalls, gtimer, elapsed, exited,
                            exitCode>>]_vars
    /\ [][isShuttingDown => isShuttingDown']_vars

\* a shutdown call was ignored after an earlier one invoked a handler
C22_Witness ==
    /\ lastCall = "ignored"
    /\ isShuttingDown
    /\ \E i \in Registered : hcalls[i] = 1

\* C23: the shutdown call that goes ahead starts every handler registered by
\* then; and the process exits only when the global timer has fired or every
\* started handler has settled or reached its own timeout, whether or not
\* some of them failed.
C23_FailuresDoNotCutSiblingsShort ==
    /\ [][(~isShuttingDown /\ isShuttingDown')
             => \A i \in Registered :
                    hstat'[i] = "running" /\ hcalls'[i] = hcalls[i] + 1]_vars
    /\ [](exited => (gtimer.fired \/ \A i \in Started : hstat[i] # "running"))

\* the process exited before the global timer fired, after one handler
\* rejected and its sibling ran into its own timeout
C23_Witness ==
    /\ exited
    /\ ~gtimer.fired
    /\ \E i, j \in Started : hstat[i] = "rejected" /\ hstat[j] = "timeout"

\* the largest timeout among the started handlers (0 when there is none)
MaxStartedTimeout ==
    IF Started = {} THEN 0
    ELSE CHOOSE t \in {shutdownHandlers[i] : i \in Started} :
             \A i \in Started : shutdownHandlers[i] <= t

MinOf(a, b) == IF a <= b THEN a ELSE b

\* C24: every shutdown that starts exits, even when handlers never settle,
\* and it exits no later than min(shutdownTimeout, largest handler timeout)
\* after it started.
C24_ShutdownTerminatesInTime ==
    /\ isShuttingDown ~> exited
    /\ [](exited => elapsed <= MinOf(gtimer.delay, MaxStartedTimeout))

\* one hung handler of timeout 1 beside a handler that resolved, global
\* timeout 2: the process exited at time 1, the global timer still pending
C24_Witness ==
    /\ exited
    /\ ~gtimer.fired
    /\ gtimer.delay = 2
    /\ elapsed = 1
    /\ \E i, j \in Started :
           /\ hstat[i] = "timeout" /\ shutdownHandlers[i] = 1
           /\ hstat[j] = "resolved"

\* C25: the exit status depends on the reason of the shutdown alone: 1 for
\* UNCAUGHT_EXCEPTION and UNHANDLED_REJECTION, 0 for SIGTERM, SIGINT and
\* MANUAL, whatever the handlers and the global timer did.
C25_ExitStatusByReason ==
    exited =>
        \/ reason \in {"UNCAUGHT_EXCEPTION", "UNHANDLED_REJECTION"} /\ exitCode = 1
        \/ reason \in {"SIGTERM", "SIGINT", "MANUAL"} /\ exitCode = 0

\* exit with status 0 after SIGTERM although the global timer fired and a
\* handler rejected
C25_Witness ==
    /\ exited
    /\ reason = "SIGTERM"
    /\ gtimer.fired
    /\ \E i \in Started : hstat[i] = "rejected"

\* C37: the exit status is fixed by the reason of the first shutdown call: a
\* shutdown call of any reason made while a shutdown is in progress, the
\* listeners of uncaughtException and unhandledRejection included, changes
\* neither the reason the exit reads nor the handlers run, and does not exit;
\* so a shutdown begun by SIGTERM, SIGINT or MANUAL exits with status 0 and
\* one begun by UNCAUGHT_EXCEPTION or UNHANDLED_REJECTION with status 1.
C37_ExitStatusFixedByFirstCall ==
    /\ [][\A rsn \in ShutdownReason :
             (isShuttingDown /\ Shutdown(rsn))
                 => /\ reason' = reason
                    /\ Started' = Started
                    /\ hcalls' = hcalls
                    /\ exited' = exited]_vars
    /\ [][isShuttingDown => reason' = reason]_vars
    /\ [][(~exited /\ exited')
             => exitCode' = (IF reason \in {"SIGTERM", "SIGINT", "MANUAL"} THEN 0 ELSE 1)]_vars

\* a shutdown begun by SIGINT ignored a later trigger and exited with status 0
\* after running both handlers
C37_Witness ==
    /\ exited
    /\ exitCode = 0
    /\ reason = "SIGINT"
    /\ lastCall = "ignored"
    /\ Cardinality(Started) = 2
    /\ \A i \in Started : hcalls[i] = 1

----------------------------------------------------------------------------
(* Claims about ErrorCollector (checked under SpecCollector)               *)

\* the keys of the errors recorded since the last reset()
RecordedKeys == {MetricsKey(recorded[i]) : i \in 1..Len(recorded)}

\* the number of recordError calls with key k since the last reset()
RecordedCount(k) == Cardinality({i \in 1..Len(recorded) : MetricsKey(recorded[i]) = k})

\* C26: getMetrics() holds exactly one entry for every distinct
\* category:code key recorded since the last reset(), its count is the number
\* of recordError calls with that key since then; and no entry disappears and
\* no count decreases except by reset(), which empties the collector.
C26_OneEntryPerKeyWithItsCount ==
    /\ [](/\ DOMAIN metrics = RecordedKeys
          /\ Cardinality(getMetrics(metrics)) = Cardinality(RecordedKeys)
          /\ \A k \in RecordedKeys :
                /\ MetricsKey(metrics[k]) = k
                /\ metrics[k].count = RecordedCount(k))
    /\ [][\/ \A k \in DOMAIN metrics :
                k \in DOMAIN metrics' /\ metrics'[k].count >= metrics[k].count
          \/ getMetrics(metrics') = {} /\ recorded' = <<>>]_vars

\* three errors recorded, two of them under the same key
C26_Witness ==
    /\ Len(recorded) = 3
    /\ Cardinality(DOMAIN metrics) = 2
    /\ \E k \in DOMAIN metrics : metrics[k].count = 2

\* the timestamps of the errors recorded under key k since the last reset()
RecordedTimestamps(k) ==
    {recorded[i].timestamp : i \in {j \in 1..Len(recorded) : MetricsKey(recorded[j]) = k}}

\* C38: for every entry firstOccurrence <= lastOccurrence, firstOccurrence is
\* the earliest and lastOccurrence the latest timestamp recorded under its
\* key since the last reset(), in whatever order the errors were recorded.
C38_OccurrencesSpanTheRecordedTimestamps ==
    \A k \in DOMAIN metrics :
        /\ metrics[k].firstOccurrence <= metrics[k].lastOccurrence
        /\ \A t \in RecordedTimestamps(k) :
              /\ metrics[k].firstOccurrence <= t
              /\ t <= metrics[k].lastOccurrence

----------------------------------------------------------------------------
(* Claims about concurrent and repeated attempts of RobustExecutor         *)
(* (checked under SpecExec and SpecExecLive)                               *)

\* C31: a circuit-open rejection is terminal: once an attempt of a call was
\* rejected with the circuit-open Error, the call is over and has rejected
\* with that error, whatever the operationName.
C31_CircuitOpenIsTerminal ==
    \A c \in ExecCalls :
        IsCircuitOpenError(xlast[c]) =>
            xpc[c] = "done" /\ xout[c] = XRejected(xlast[c])

\* the breaker-enabled calls of operationName n
CallsOf(n) == {c \in ExecCalls : Enabled(c) /\ NameOf(c) = n}

\* the awaited attempt of c succeeds
SucceededAttempt(c) == xpc[c] = "awaitOp" /\ xout'[c] = XResolved

\* requests of the breaker of n as the step leaves it when no update is
\* lost: what the window update of an attempt, or the reset of a recovery,
\* leaves, plus one for a dispatch
RequestsAfterStep(n) ==
    LET b == breakers[n]
        base == IF \E c \in CallsOf(n) : AttemptStep(c)
                THEN RequestsInWindow(b)
                ELSE IF b.state = "HALF_OPEN" /\ \E c \in CallsOf(n) : SucceededAttempt(c)
                     THEN 0
                     ELSE b.stats.requests
    IN  base + (IF \E c \in CallsOf(n) : Dispatched(c) THEN 1 ELSE 0)

\* C32: calls of one operationName share one breaker and no update of its
\* counters is lost: requests counts every dispatch of every caller since the
\* last reset; every failed attempt of any caller counts as a failure, and
\* opens the breaker when the thresholds are met, whoever made the other
\* requests; and an attempt that finds the breaker OPEN is rejected without
\* its operation being invoked.
C32_CallersShareOneBreaker ==
    [][\A n \in OperationNames :
         /\ breakers'[n].stats.requests = RequestsAfterStep(n)
         /\ \A c \in CallsOf(n) :
               /\ FailedAttempt(c) =>
                     /\ breakers'[n].stats.failures = breakers[n].stats.failures + 1
                     /\ (/\ breakers'[n].stats.failures >= circuitConfig.failureThreshold
                         /\ breakers'[n].stats.requests >= circuitConfig.minimumRequests)
                            => breakers'[n].state = "OPEN"
               /\ (AttemptStep(c) /\ breakers'[n].state = "OPEN") =>
                     /\ ~Dispatched(c)
                     /\ xlast'[c] = CircuitOpenError(n)
                     /\ abandoned'[c] = abandoned[c] /\ stale'[c] = stale[c]
      ]_vars

\* both failures of one caller opened the breaker, and the first attempt of
\* the other caller was rejected as circuit-open: its operation never ran
C32_Witness ==
    \E c, d \in ExecCalls :
        /\ c # d
        /\ Enabled(c) /\ Enabled(d) /\ NameOf(c) = NameOf(d)
        /\ xattempt[c] = 2 /\ xpc[c] = "done" /\ xout[c].kind = "rejected"
        /\ xattempt[d] = 1
        /\ xlast[d] = CircuitOpenError(NameOf(d))
        /\ abandoned[d] = 0 /\ stale[d] = 0
        /\ breakers[NameOf(d)].state = "OPEN"
        /\ breakers[NameOf(d)].stats.requests = 2

\* the invocations of the operation made by call c that have not settled:
\* the awaited one and those abandoned by their timeout
InFlight(c) == abandoned[c] + (IF xpc[c] = "awaitOp" THEN 1 ELSE 0)

\* C36: of one call of execute at most one invocation of the operation is in
\* flight at any time, also after an attempt that ended by timeout.
C36_OneInvocationInFlight ==
    \A c \in ExecCalls : InFlight(c) <= 1

\* C39: every call of execute settles, after at most maxAttempts attempts
\* (so at most maxAttempts invocations of the operation), even when its
\* operations never settle, with the breaker and without it.
C39_ExecuteSettles ==
    /\ [](\A c \in ExecCalls : xattempt[c] <= config.maxAttempts)
    /\ \A c \in ExecCalls : (xpc[c] # "idle") ~> (xout[c].kind # "pending")

\* a call without the breaker rejected with the TimeoutError of its second
\* attempt while both of its operations are still running
C39_Witness ==
    \E c \in ExecCalls :
        /\ ~Enabled(c)
        /\ config.maxAttempts = 2
        /\ xattempt[c] = 2
        /\ xout[c] = XRejected(TimedOut(NameOf(c)))
        /\ abandoned[c] = 2

----------------------------------------------------------------------------
(* Claims about concurrent callers of one CircuitBreaker (checked under    *)
(* SpecBreaker)                                                            *)

\* the callers whose call in flight was dispatched while the breaker was
\* HALF_OPEN
Probes == {c \in Callers : cpc[c] = "inflight" /\ dispatchedIn[c] = "HALF_OPEN"}

\* C33: while the breaker is HALF_OPEN at most one operation dispatched in
\* HALF_OPEN is in flight (a single probe), however many callers arrive.
C33_SingleProbeInHalfOpen ==
    state = "HALF_OPEN" => Cardinality(Probes) <= 1

\* C34: in every reachable state 0 <= failures <= requests, so that the
\* successRate of getStats, (requests - failures) / requests, is in [0, 1].
C34_FailuresWithinRequests ==
    /\ 0 <= stats.failures
    /\ stats.failures <= stats.requests

\* the call of c in flight resolves
SuccessOf(c) == cpc[c] = "inflight" /\ cres'[c] = "ok"

\* C35: the breaker goes from HALF_OPEN to CLOSED, and a success resets the
\* statistics, only when the call that succeeds was dispatched while the
\* breaker was HALF_OPEN.
C35_OnlyAProbeClosesTheBreaker ==
    [][\A c \in Callers :
         (SuccessOf(c) /\ (state' # state \/ stats' # stats))
             => dispatchedIn[c] = "HALF_OPEN"]_vars

====
